---- MODULE Spec2Model ----
(***************************************************************************)
(* Wave Function Collapse, overlapping model (src/src/wfc.rs,              *)
(* src/src/pattern.rs, src/src/sample.rs).                                 *)
(*                                                                         *)
(* Vectors keep the 0-based indexing of the source: a Vec of length k is a *)
(* function over 0..k-1.  The propagation stack is a sequence whose last   *)
(* element is the top.  A colour is an index into the palette of the       *)
(* sample.  Natural logarithms are fixed-point numbers in units of 1e-6,   *)
(* so the f64 sums of the source are exact sums here.                      *)
(***************************************************************************)
EXTENDS Integers, Sequences, FiniteSets, TLC

\* ------------------------------------------------------------------ bounds
MaxSampleW == 2
MaxSampleH == 2
MaxColumnH == 3
MaxRowW == 3
NumColors == 2
MaxN == 2
MaxOutW == 2
MaxOutH == 2

\* The least pattern_size a host offers
MinN == 2

Colors == 0..(NumColors - 1)

\* ------------------------------------------------------------- arithmetic
Min(a, b) == IF a < b THEN a ELSE b
Max(a, b) == IF a > b THEN a ELSE b

\* usize::saturating_sub
SatSub(a, b) == IF a >= b THEN a - b ELSE 0

\* i32::rem_euclid for a positive modulus
RemEuclid(a, m) == a % m

\* Op applied to the value of v, which is computed once
Eval(v, Op(_)) == CHOOSE r \in {Op(e) : e \in {v}} : TRUE

\* Sum of f over the finite set S of integers
RECURSIVE SumOver(_, _)
SumOver(S, f) ==
    IF S = {} THEN 0
    ELSE LET i == CHOOSE k \in S : TRUE
         IN f[i] + SumOver(S \ {i}, f)

\* f64::ln of a positive integer, in units of 1e-6
LnTable ==
    << 0, 693147, 1098612, 1386294, 1609438, 1791759, 1945910, 2079442,
       2197225, 2302585, 2397895, 2484907, 2564949, 2639057, 2708050, 2772589,
       2833213, 2890372, 2944439, 2995732, 3044522, 3091042, 3135494, 3178054,
       3218876, 3258097, 3295837, 3332205, 3367296, 3401197, 3433987, 3465736,
       3496508, 3526361, 3555348, 3583519, 3610918, 3637586, 3663562, 3688879,
       3713572, 3737670, 3761200, 3784190, 3806662, 3828641, 3850148, 3871201,
       3891820, 3912023, 3931826, 3951244, 3970292, 3988984, 4007333, 4025352,
       4043051, 4060443, 4077537, 4094345, 4110874, 4127134, 4143135, 4158883,
       4174387, 4189655, 4204693, 4219508, 4234107, 4248495, 4262680, 4276666,
       4290459, 4304065, 4317488, 4330733, 4343805, 4356709, 4369448, 4382027,
       4394449, 4406719, 4418841, 4430817, 4442651, 4454347, 4465908, 4477337,
       4488636, 4499810, 4510860, 4521789, 4532599, 4543295, 4553877, 4564348,
       4574711, 4584967, 4595120, 4605170, 4615121, 4624973, 4634729, 4644391,
       4653960, 4663439, 4672829, 4682131, 4691348, 4700480, 4709530, 4718499,
       4727388, 4736198, 4744932, 4753590, 4762174, 4770685, 4779123, 4787492,
       4795791, 4804021, 4812184, 4820282, 4828314, 4836282, 4844187, 4852030 >>

Ln(k) == LnTable[k]

\* ----------------------------------------------------------------- Sample
\* Sample::new: pixels.len() = width * height, row-major
Sample(width, height, pixels) ==
    [width |-> width, height |-> height, pixels |-> pixels]

\* Sample::get
SampleGet(s, x, y) == s.pixels[y * s.width + x]

\* ---------------------------------------------------------------- Pattern
\* Pattern::new
Pattern(size, pixels) == [size |-> size, pixels |-> pixels]

\* Pattern::get
Get(p, x, y) == p.pixels[y * p.size + x]

\* rotate that writes self.get(x, y) to rotated[x*n + y]
rotate_transposes(p) ==
    LET n == p.size
    IN Pattern(n, [i \in 0..(n * n - 1) |-> Get(p, i \div n, i % n)])

\* Pattern::rotate: rotated[x*n + (n-1-y)] = self.get(x, y).  The target
\* index i = x*n + (n-1-y) is read back as x = i \div n, y = n-1-(i % n).
rotate(p) ==
    LET n == p.size
    IN Pattern(n, [i \in 0..(n * n - 1) |-> Get(p, i \div n, n - 1 - (i % n))])

\* Pattern::reflect: reflected[y*n + (n-1-x)] = self.get(x, y)
reflect(p) ==
    LET n == p.size
    IN Pattern(n, [i \in 0..(n * n - 1) |-> Get(p, n - 1 - (i % n), i \div n)])

\* symmetries that makes three rounds
symmetries_three_rounds(p) ==
    LET r1 == rotate(p)
        r2 == rotate(r1)
    IN {p, reflect(p), r1, reflect(r1), r2, reflect(r2)}

\* Pattern::symmetries: four rounds of {current, current.reflect()}, then
\* current <- current.rotate(); the HashSet coalesces duplicates
symmetries(p) ==
    LET r1 == rotate(p)
        r2 == rotate(r1)
        r3 == rotate(r2)
    IN {p, reflect(p), r1, reflect(r1), r2, reflect(r2), r3, reflect(r3)}

\* The rounds of Pattern::symmetries of src/src/lib.rs: a Vec that takes
\* current and current.reflect() unless it contains them already
RECURSIVE LibSymmetriesRounds(_, _, _)
LibSymmetriesRounds(variants, cur, rounds) ==
    IF rounds = 0 THEN variants
    ELSE LET v1 == IF \E k \in 1..Len(variants) : variants[k] = cur
                   THEN variants ELSE Append(variants, cur)
             reflected == reflect(cur)
             v2 == IF \E k \in 1..Len(v1) : v1[k] = reflected
                   THEN v1 ELSE Append(v1, reflected)
         IN LibSymmetriesRounds(v2, rotate(cur), rounds - 1)

\* Pattern::symmetries of src/src/lib.rs
lib_symmetries(p) == LibSymmetriesRounds(<<>>, p, 4)

\* ---------------------------------------------------------------- WfcConfig
WfcConfig(n, w, h, pin, pout, sym, gr, sd) ==
    [pattern_size |-> n, output_width |-> w, output_height |-> h,
     periodic_input |-> pin, periodic_output |-> pout, symmetry |-> sym,
     ground |-> gr, sides |-> sd]

\* ---------------------------------------------------------------- Direction
Right == 0
Down == 1
Left == 2
Up == 3

\* Direction::ALL
ALL == <<Right, Down, Left, Up>>

\* Direction::dx
dx(dir) == IF dir = Right THEN 1 ELSE IF dir = Left THEN -1 ELSE 0

\* Direction::dy
dy(dir) == IF dir = Down THEN 1 ELSE IF dir = Up THEN -1 ELSE 0

\* ---------------------------------------------------------- extract_patterns
\* x_max that is sample.width for a non-periodic input too
XMax_ignores_size(sample, config) == sample.width

\* x_max of extract_patterns
XMax(sample, config) ==
    IF config.periodic_input THEN sample.width
    ELSE SatSub(sample.width, config.pattern_size - 1)

\* y_max that stops N - 1 rows short for a periodic input too
YMax_ignores_periodic(sample, config) ==
    SatSub(sample.height, config.pattern_size - 1)

\* y_max of extract_patterns
YMax(sample, config) ==
    IF config.periodic_input THEN sample.height
    ELSE SatSub(sample.height, config.pattern_size - 1)

\* The window positions visited by the two for-loops, as pairs <<x, y>>
WindowPositions(sample, config) ==
    (0..(XMax(sample, config) - 1)) \X (0..(YMax(sample, config) - 1))

\* The pattern read at window position (x, y) with wrapped coordinates
WindowPattern(sample, n, x, y) ==
    Pattern(n, [i \in 0..(n * n - 1) |->
                    SampleGet(sample, (x + (i % n)) % sample.width,
                                      (y + (i \div n)) % sample.height)])

\* Some enumeration of a finite set as a sequence (iteration of a HashSet)
RECURSIVE SetToSeq(_)
SetToSeq(S) ==
    IF S = {} THEN <<>>
    ELSE LET e == CHOOSE v \in S : TRUE
         IN <<e>> \o SetToSeq(S \ {e})

\* variants without the reflection when ground or sides is set
Variants_identity_with_edges(pattern, config) ==
    IF config.symmetry
    THEN IF config.ground \/ config.sides
         THEN <<pattern>>
         ELSE SetToSeq(symmetries(pattern))
    ELSE <<pattern>>

\* `variants` of extract_patterns: a Vec, so an entry may occur twice
Variants(pattern, config) ==
    IF config.symmetry
    THEN IF config.ground \/ config.sides
         THEN <<pattern, reflect(pattern)>>
         ELSE SetToSeq(symmetries(pattern))
    ELSE <<pattern>>

\* The variants emitted by the window at pos = <<x, y>>
VariantsAt(sample, config, pos) ==
    Variants(WindowPattern(sample, config.pattern_size, pos[1], pos[2]), config)

SeqRange(s) == {s[k] : k \in 1..Len(s)}

Occurrences(v, s) == Cardinality({k \in 1..Len(s) : s[k] = v})

\* The variants emitted by the windows at the given positions
EmittedAt(sample, config, positions) ==
    UNION {SeqRange(VariantsAt(sample, config, pos)) : pos \in positions}

\* pattern_counts of extract_patterns: one increment per emitted variant
PatternCounts(sample, config) ==
    LET positions == WindowPositions(sample, config)
        keys == EmittedAt(sample, config, positions)
        pos == SetToSeq(positions)
        occ == [v \in keys |->
                   [k \in 1..Len(pos) |->
                       Occurrences(v, VariantsAt(sample, config, pos[k]))]]
    IN [v \in keys |-> SumOver(1..Len(pos), occ[v])]

\* top_set: variants of windows with y == 0
TopSet(sample, config) ==
    EmittedAt(sample, config,
              {pos \in WindowPositions(sample, config) : pos[2] = 0})

\* bottom_set that takes the windows with y + n > sample.height
BottomSet_strict(sample, config) ==
    EmittedAt(sample, config,
              {pos \in WindowPositions(sample, config) :
                   pos[2] + config.pattern_size > sample.height})

\* bottom_set: variants of windows with y + n >= sample.height
BottomSet(sample, config) ==
    EmittedAt(sample, config,
              {pos \in WindowPositions(sample, config) :
                   pos[2] + config.pattern_size >= sample.height})

\* left_set: variants of windows with x == 0
LeftSet(sample, config) ==
    EmittedAt(sample, config,
              {pos \in WindowPositions(sample, config) : pos[1] = 0})

\* right_set: variants of windows with x + n >= sample.width
RightSet(sample, config) ==
    EmittedAt(sample, config,
              {pos \in WindowPositions(sample, config) :
                   pos[1] + config.pattern_size >= sample.width})

\* A number that identifies the pixels of a pattern (base-NumColors digits)
RECURSIVE PatternCode(_, _)
PatternCode(p, k) ==
    IF k = 0 THEN 0
    ELSE p.pixels[k - 1] + NumColors * PatternCode(p, k - 1)

\* The iteration orders of pattern_counts the model draws from: a HashMap
\* iterates in an unspecified order; the model takes the patterns by
\* ascending or by descending code.
IterationOrders == {"asc", "desc"}

\* patterns whose last entry repeats the first
PatternList_repeats(keys, order) ==
    LET code(p) == PatternCode(p, p.size * p.size)
        rank(p) == Cardinality({q \in keys : code(q) < code(p)})
        P == Cardinality(keys)
    IN [i \in 0..(P - 1) |->
           CHOOSE p \in keys :
               rank(p) = (IF i = P - 1 THEN 0
                          ELSE IF order = "asc" THEN i ELSE P - 1 - i)]

\* The Vec `patterns` built by iterating pattern_counts in the given order
PatternList(keys, order) ==
    LET code(p) == PatternCode(p, p.size * p.size)
        rank(p) == Cardinality({q \in keys : code(q) < code(p)})
        P == Cardinality(keys)
    IN [i \in 0..(P - 1) |->
           CHOOSE p \in keys :
               rank(p) = (IF order = "asc" THEN i ELSE P - 1 - i)]

\* extract_patterns
extract_patterns(sample, config, order) ==
    LET counts == PatternCounts(sample, config)
        patterns == PatternList(DOMAIN counts, order)
    IN [patterns |-> patterns,
        weights |-> [i \in DOMAIN patterns |-> counts[patterns[i]]],
        top_set |-> TopSet(sample, config),
        bottom_set |-> BottomSet(sample, config),
        left_set |-> LeftSet(sample, config),
        right_set |-> RightSet(sample, config)]

\* ---------------------------------------------------------- build_propagator
\* patterns_agree that compares the two patterns at the same pixel
patterns_agree_same_pixel(p1, p2, ddx, ddy, n) ==
    LET xmin == Max(ddx, 0)
        xmax == n + Min(ddx, 0)
        ymin == Max(ddy, 0)
        ymax == n + Min(ddy, 0)
    IN \A y \in ymin..(ymax - 1) : \A x \in xmin..(xmax - 1) :
           Get(p1, x, y) = Get(p2, x, y)

\* patterns_agree
patterns_agree(p1, p2, ddx, ddy, n) ==
    LET xmin == Max(ddx, 0)
        xmax == n + Min(ddx, 0)
        ymin == Max(ddy, 0)
        ymax == n + Min(ddy, 0)
    IN \A y \in ymin..(ymax - 1) : \A x \in xmin..(xmax - 1) :
           Get(p1, x, y) = Get(p2, x - ddx, y - ddy)

\* The sequence <<0, 1, ..., k-1>>
IndexSeq(k) == [i \in 1..k |-> i - 1]

\* build_propagator that fills the Left list with the offset of Right
build_propagator_left_as_right(patterns, config) ==
    LET n == config.pattern_size
        P == Cardinality(DOMAIN patterns)
    IN [i \in 0..(P - 1) |->
           [dir \in 0..3 |->
               SelectSeq(IndexSeq(P),
                         LAMBDA j : patterns_agree(patterns[i], patterns[j],
                                                   IF dir = Left THEN 1
                                                   ELSE dx(dir),
                                                   dy(dir), n))]]

\* build_propagator: propagator[i][dir] lists, in ascending order, the j
\* with patterns_agree(patterns[i], patterns[j], dx, dy, n)
build_propagator(patterns, config) ==
    LET n == config.pattern_size
        P == Cardinality(DOMAIN patterns)
    IN [i \in 0..(P - 1) |->
           [dir \in 0..3 |->
               SelectSeq(IndexSeq(P),
                         LAMBDA j : patterns_agree(patterns[i], patterns[j],
                                                   dx(dir), dy(dir), n))]]

\* -------------------------------------------------------------------- state
VARIABLES
    sample,               \* the Sample given to new()
    config,               \* Wfc.config
    patterns,             \* Wfc.patterns
    weights,              \* Wfc.weights
    propagator,           \* Wfc.propagator
    log_weights,          \* Wfc.log_weights
    top_patterns,         \* Wfc.top_patterns
    bottom_patterns,      \* Wfc.bottom_patterns
    left_patterns,        \* Wfc.left_patterns
    right_patterns,       \* Wfc.right_patterns
    wave,                 \* Wfc.wave
    sumsone,              \* Wfc.sumsone
    sumweights,           \* Wfc.sumweights
    sumweightlogweights,  \* Wfc.sumweightlogweights
    stack,                \* Wfc.stack
    contradiction,        \* Wfc.contradiction
    done,                 \* Wfc.done
    last_collapsed,       \* Wfc.last_collapsed: <<>> is None, <<x, y>> is Some
    pc,                   \* "host": between calls; "run": inside the loop of run()
    op,                   \* the call that produced the state: new, reset, step, run
    ret,                  \* what the latest step() returned
    steps,                \* step() calls that returned true since new()/reset()
    subject,              \* the Pattern a caller of the Pattern methods starts from
    current,              \* the Pattern the latest rotate()/reflect() returned
    applied,              \* the rotate()/reflect() calls made on subject, in order
    orbit,                \* the Vec the latest symmetries() returned
    tape,                 \* the draws of the first solver's step() calls, in order
    renders,              \* render() of the first solver after each of those calls
    twin,                 \* the fields are those of the second solver
    replayed              \* the draws of tape the second solver has been given

statics == <<sample, config, patterns, weights, propagator, log_weights,
             top_patterns, bottom_patterns, left_patterns, right_patterns>>

solver == <<wave, sumsone, sumweights, sumweightlogweights, stack,
            contradiction, done, last_collapsed>>

algebra == <<subject, current, applied, orbit>>

record == <<tape, renders, twin, replayed>>

vars == <<statics, solver, pc, op, ret, steps, algebra, record>>

\* patterns.len()
NumPatterns == Cardinality(DOMAIN patterns)

\* wave.len() = output_width * output_height
WaveSize == config.output_width * config.output_height

PatternIds == 0..(NumPatterns - 1)
Cells == 0..(WaveSize - 1)

\* The fields of Wfc that ban, collapse and propagate write
Mutable == [wave |-> wave, sumsone |-> sumsone, sumweights |-> sumweights,
            sumweightlogweights |-> sumweightlogweights, stack |-> stack,
            contradiction |-> contradiction, returned |-> FALSE]

\* Wfc::cell_index
cell_index(x, y) == y * config.output_width + x

\* The cell indices apply_edge_constraints computes for its four loops
EdgeCells ==
    LET w == config.output_width
        h == config.output_height
    IN (IF config.ground
        THEN {x : x \in 0..(w - 1)} \cup {(h - 1) * w + x : x \in 0..(w - 1)}
        ELSE {})
       \cup
       (IF config.sides
        THEN {y * w : y \in 0..(h - 1)} \cup {y * w + (w - 1) : y \in 0..(h - 1)}
        ELSE {})

\* neighbor of propagate without the test of nx and ny
Neighbors_unchecked(cell, dir) ==
    LET w == config.output_width
        h == config.output_height
        nx == (cell % w) + dx(dir)
        ny == (cell \div w) + dy(dir)
    IN IF config.periodic_output
       THEN {cell_index(RemEuclid(nx, w), RemEuclid(ny, h))}
       ELSE {cell_index(nx, ny)}

\* The index `neighbor` that propagate computes for cell and dir: none when
\* the `continue` is taken
Neighbors(cell, dir) ==
    LET w == config.output_width
        h == config.output_height
        nx == (cell % w) + dx(dir)
        ny == (cell \div w) + dy(dir)
    IN IF config.periodic_output
       THEN {cell_index(RemEuclid(nx, w), RemEuclid(ny, h))}
       ELSE IF nx < 0 \/ nx >= w \/ ny < 0 \/ ny >= h THEN {}
       ELSE {cell_index(nx, ny)}

\* -------------------------------------------------------------------- ban
\* ban that leaves sumweights as it was
ban_keeps_sumweights(st, cell, pattern) ==
    IF ~st.wave[cell][pattern] THEN st
    ELSE [st EXCEPT
            !.wave[cell][pattern] = FALSE,
            !.sumsone[cell] = @ - 1,
            !.sumweightlogweights[cell] =
                @ - weights[pattern] * log_weights[pattern],
            !.stack = Append(@, <<cell, pattern>>)]

\* ban without the early return on an already banned pattern
ban_unguarded(st, cell, pattern) ==
    [st EXCEPT
        !.wave[cell][pattern] = FALSE,
        !.sumsone[cell] = @ - 1,
        !.sumweights[cell] = @ - weights[pattern],
        !.sumweightlogweights[cell] =
            @ - weights[pattern] * log_weights[pattern],
        !.stack = Append(@, <<cell, pattern>>)]

\* Wfc::ban
ban(st, cell, pattern) ==
    IF ~st.wave[cell][pattern] THEN st
    ELSE [st EXCEPT
            !.wave[cell][pattern] = FALSE,
            !.sumsone[cell] = @ - 1,
            !.sumweights[cell] = @ - weights[pattern],
            !.sumweightlogweights[cell] =
                @ - weights[pattern] * log_weights[pattern],
            !.stack = Append(@, <<cell, pattern>>)]

\* to_ban that is empty for the neighbours to the right and to the left
ToBan_vertical_only(st, cell, pattern, dir, neighbor) ==
    IF dir \in {Right, Left} THEN <<>>
    ELSE SelectSeq(propagator[pattern][dir],
                   LAMBDA other :
                       /\ st.wave[neighbor][other]
                       /\ ~ \E p \in PatternIds :
                              /\ st.wave[cell][p]
                              /\ other \in SeqRange(propagator[p][dir]))

\* to_ban that takes every candidate still allowed in the neighbour, whether
\* or not a pattern of cell supports it
ToBan_ignores_support(st, cell, pattern, dir, neighbor) ==
    SelectSeq(propagator[pattern][dir],
              LAMBDA other : st.wave[neighbor][other])

\* -------------------------------------------------------------- propagate
\* to_ban of propagate: the candidates of propagator[pattern][dir] still
\* allowed in the neighbour and supported by no pattern still allowed in cell
ToBan(st, cell, pattern, dir, neighbor) ==
    SelectSeq(propagator[pattern][dir],
              LAMBDA other :
                  /\ st.wave[neighbor][other]
                  /\ ~ \E p \in PatternIds :
                         /\ st.wave[cell][p]
                         /\ other \in SeqRange(propagator[p][dir]))

\* `for other_pattern in to_ban`: ban, and on an emptied neighbour set
\* contradiction and return from propagate
RECURSIVE BanList(_, _, _, _)
BanList(st, neighbor, to_ban, k) ==
    IF k > Len(to_ban) THEN st
    ELSE Eval(ban(st, neighbor, to_ban[k]), LAMBDA s1 :
             IF s1.sumsone[neighbor] = 0
             THEN [s1 EXCEPT !.contradiction = TRUE, !.returned = TRUE]
             ELSE BanList(s1, neighbor, to_ban, k + 1))

\* `for dir in Direction::ALL` of propagate, from the k-th direction on
RECURSIVE PropagateDirs(_, _, _, _)
PropagateDirs(st, cell, pattern, k) ==
    IF k > Len(ALL) THEN st
    ELSE LET dir == ALL[k]
             found == Neighbors(cell, dir)
         IN IF found = {}
            THEN PropagateDirs(st, cell, pattern, k + 1)
            ELSE LET neighbor == CHOOSE n \in found : TRUE
                 IN Eval(BanList(st, neighbor,
                                 ToBan(st, cell, pattern, dir, neighbor), 1),
                         LAMBDA s1 :
                             IF s1.returned THEN s1
                             ELSE PropagateDirs(s1, cell, pattern, k + 1))

\* `while let Some((cell, pattern)) = self.stack.pop()` of propagate
RECURSIVE PropagateLoop(_)
PropagateLoop(st) ==
    IF st.stack = <<>> THEN st
    ELSE LET top == st.stack[Len(st.stack)]
             s0 == [st EXCEPT !.stack = SubSeq(@, 1, Len(@) - 1)]
         IN Eval(PropagateDirs(s0, top[1], top[2], 1), LAMBDA s1 :
                 IF s1.returned THEN s1 ELSE PropagateLoop(s1))

\* propagate that empties the stack and bans nothing
propagate_drops_stack(st) ==
    [st EXCEPT !.stack = <<>>, !.returned = FALSE]

\* propagate with `if let` for `while let`: it pops one entry only
propagate_one_entry(st) ==
    Eval(st, LAMBDA s0 :
        IF s0.stack = <<>> THEN s0
        ELSE [PropagateDirs([s0 EXCEPT !.stack = SubSeq(@, 1, Len(@) - 1)],
                            s0.stack[Len(s0.stack)][1],
                            s0.stack[Len(s0.stack)][2], 1)
                  EXCEPT !.returned = FALSE])

\* Wfc::propagate
propagate(st) ==
    Eval(st, LAMBDA s0 : [PropagateLoop(s0) EXCEPT !.returned = FALSE])

\* ------------------------------------------------- apply_edge_constraints
\* `for p in 0..self.patterns.len()`: ban p from cell unless flags[p]
RECURSIVE BanUnflagged(_, _, _, _)
BanUnflagged(st, cell, flags, p) ==
    IF p >= NumPatterns THEN st
    ELSE Eval(IF st.wave[cell][p] /\ ~flags[p] THEN ban(st, cell, p) ELSE st,
              LAMBDA s1 : BanUnflagged(s1, cell, flags, p + 1))

\* One of the four loops over an edge of the output: cells is the sequence
\* of cell indices the loop visits
RECURSIVE ConstrainCells(_, _, _, _)
ConstrainCells(st, cells, flags, k) ==
    IF k > Len(cells) THEN st
    ELSE Eval(BanUnflagged(st, cells[k], flags, 0),
              LAMBDA s1 : ConstrainCells(s1, cells, flags, k + 1))

\* apply_edge_constraints that constrains the top row only under ground
apply_edge_constraints_top_only(st) ==
    LET w == config.output_width
        h == config.output_height
        topRow == [k \in 1..w |-> k - 1]
        leftCol == [k \in 1..h |-> (k - 1) * w]
        rightCol == [k \in 1..h |-> (k - 1) * w + (w - 1)]
        Ground(s0) ==
            IF config.ground
            THEN ConstrainCells(s0, topRow, top_patterns, 1)
            ELSE s0
        Sides(s0) ==
            IF config.sides
            THEN Eval(ConstrainCells(s0, leftCol, left_patterns, 1), LAMBDA s1 :
                     ConstrainCells(s1, rightCol, right_patterns, 1))
            ELSE s0
    IN Eval(st, LAMBDA s0 :
           Eval(Ground(s0), LAMBDA s1 :
               Eval(Sides(s1), LAMBDA s2 : propagate(s2))))

\* apply_edge_constraints that visits the left column twice under sides
apply_edge_constraints_left_twice(st) ==
    LET w == config.output_width
        h == config.output_height
        topRow == [k \in 1..w |-> k - 1]
        bottomRow == [k \in 1..w |-> (h - 1) * w + (k - 1)]
        leftCol == [k \in 1..h |-> (k - 1) * w]
        Ground(s0) ==
            IF config.ground
            THEN Eval(ConstrainCells(s0, topRow, top_patterns, 1), LAMBDA s1 :
                     ConstrainCells(s1, bottomRow, bottom_patterns, 1))
            ELSE s0
        Sides(s0) ==
            IF config.sides
            THEN Eval(ConstrainCells(s0, leftCol, left_patterns, 1), LAMBDA s1 :
                     ConstrainCells(s1, leftCol, right_patterns, 1))
            ELSE s0
    IN Eval(st, LAMBDA s0 :
           Eval(Ground(s0), LAMBDA s1 :
               Eval(Sides(s1), LAMBDA s2 : propagate(s2))))

\* Wfc::apply_edge_constraints
apply_edge_constraints(st) ==
    LET w == config.output_width
        h == config.output_height
        topRow == [k \in 1..w |-> k - 1]
        bottomRow == [k \in 1..w |-> (h - 1) * w + (k - 1)]
        leftCol == [k \in 1..h |-> (k - 1) * w]
        rightCol == [k \in 1..h |-> (k - 1) * w + (w - 1)]
        Ground(s0) ==
            IF config.ground
            THEN Eval(ConstrainCells(s0, topRow, top_patterns, 1), LAMBDA s1 :
                     ConstrainCells(s1, bottomRow, bottom_patterns, 1))
            ELSE s0
        Sides(s0) ==
            IF config.sides
            THEN Eval(ConstrainCells(s0, leftCol, left_patterns, 1), LAMBDA s1 :
                     ConstrainCells(s1, rightCol, right_patterns, 1))
            ELSE s0
    IN Eval(st, LAMBDA s0 :
           Eval(Ground(s0), LAMBDA s1 :
               Eval(Sides(s1), LAMBDA s2 : propagate(s2))))

\* -------------------------------------------------------------------- new
\* The Wfc that new() assembles before it calls apply_edge_constraints:
\* every pattern allowed in every cell, an empty stack, no contradiction
NewFields ==
    LET num_patterns == NumPatterns
        total_weight == SumOver(PatternIds, weights)
        sumweightlogweight ==
            SumOver(PatternIds, [p \in PatternIds |-> weights[p] * Ln(weights[p])])
    IN [wave |-> [c \in Cells |-> [p \in PatternIds |-> TRUE]],
        sumsone |-> [c \in Cells |-> num_patterns],
        sumweights |-> [c \in Cells |-> total_weight],
        sumweightlogweights |-> [c \in Cells |-> sumweightlogweight],
        stack |-> <<>>,
        contradiction |-> FALSE,
        returned |-> FALSE]

\* Wfc::new, the fields that ban and propagate write
new == apply_edge_constraints(NewFields)

\* ------------------------------------------------------------------ reset
\* reset that leaves contradiction as it was
reset_keeps_contradiction(st) ==
    LET num_patterns == NumPatterns
        total_weight == SumOver(PatternIds, weights)
        sumweightlogweight ==
            SumOver(PatternIds, [p \in PatternIds |-> weights[p] * log_weights[p]])
    IN apply_edge_constraints(
           [st EXCEPT
              !.wave = [c \in Cells |-> [p \in PatternIds |-> TRUE]],
              !.sumsone = [c \in Cells |-> num_patterns],
              !.sumweights = [c \in Cells |-> total_weight],
              !.sumweightlogweights = [c \in Cells |-> sumweightlogweight],
              !.stack = <<>>])

\* Wfc::reset, the fields that ban and propagate write
reset(st) ==
    LET num_patterns == NumPatterns
        total_weight == SumOver(PatternIds, weights)
        sumweightlogweight ==
            SumOver(PatternIds, [p \in PatternIds |-> weights[p] * log_weights[p]])
    IN apply_edge_constraints(
           [st EXCEPT
              !.wave = [c \in Cells |-> [p \in PatternIds |-> TRUE]],
              !.sumsone = [c \in Cells |-> num_patterns],
              !.sumweights = [c \in Cells |-> total_weight],
              !.sumweightlogweights = [c \in Cells |-> sumweightlogweight],
              !.stack = <<>>,
              !.contradiction = FALSE])

\* ---------------------------------------------------------------- observe
\* Wfc::entropy, in units of 1e-6
entropy(st, cell) ==
    LET sum == st.sumweights[cell]
    IN IF sum <= 0 THEN 0
       ELSE Ln(sum) - (st.sumweightlogweights[cell] \div sum)

\* The amplitude of the tie-breaking noise of observe, rng.random() * 1e-6,
\* in the units of entropy
NoiseAmplitude == 1

\* Option::None of observe
None == -1

\* observe that never finds a cell with sumsone == 0
ObserveContradiction_never(st) == FALSE

\* observe finds a cell with sumsone == 0, sets contradiction, returns None
ObserveContradiction(st) == \E cell \in Cells : st.sumsone[cell] = 0

\* observe that skips the cells with sumsone <= 2
observe_skips_two(st) ==
    LET open == {cell \in Cells : st.sumsone[cell] > 2}
    IN IF ObserveContradiction(st) \/ open = {} THEN {None}
       ELSE {cell \in open :
                \A other \in open :
                    entropy(st, cell) - entropy(st, other) <= NoiseAmplitude}

\* observe that skips only the cells with sumsone = 0
observe_takes_collapsed(st) ==
    LET open == {cell \in Cells : st.sumsone[cell] >= 1}
    IN IF ObserveContradiction(st) \/ open = {} THEN {None}
       ELSE {cell \in open :
                \A other \in open :
                    entropy(st, cell) - entropy(st, other) <= NoiseAmplitude}

\* observe that takes a cell of the greatest entropy
observe_takes_max(st) ==
    LET open == {cell \in Cells : st.sumsone[cell] >= 2}
    IN IF ObserveContradiction(st) \/ open = {} THEN {None}
       ELSE {cell \in open :
                \A other \in open :
                    entropy(st, other) - entropy(st, cell) <= NoiseAmplitude}

\* Wfc::observe without the write of contradiction: the values it can
\* return.  A cell with sumsone >= 2 can have the least entropy + noise
\* exactly when its entropy is within the noise amplitude of the least one.
observe(st) ==
    LET open == {cell \in Cells : st.sumsone[cell] >= 2}
    IN IF ObserveContradiction(st) \/ open = {} THEN {None}
       ELSE {cell \in open :
                \A other \in open :
                    entropy(st, cell) - entropy(st, other) <= NoiseAmplitude}

\* --------------------------------------------------------------- collapse
\* How many values of r the model draws per unit of weight
DrawUnits == 2

\* `possible` of collapse and get_color: the allowed patterns, ascending
Possible(st, cell) ==
    SelectSeq(IndexSeq(NumPatterns), LAMBDA i : st.wave[cell][i])

\* The weighted walk of collapse from the k-th entry of possible:
\* r -= weights[p]; r <= 0.  r is in units of 1/DrawUnits.  None if no
\* entry is found.
RECURSIVE Walk(_, _, _)
Walk(possible, k, r) ==
    IF k > Len(possible) THEN None
    ELSE LET r1 == r - DrawUnits * weights[possible[k]]
         IN IF r1 <= 0 THEN possible[k] ELSE Walk(possible, k + 1, r1)

\* `chosen` of collapse for the draw r: the pattern the walk finds,
\* possible[0] if it finds none
Chosen(possible, r) ==
    LET found == Walk(possible, 1, r)
    IN IF found = None THEN possible[1] ELSE found

\* The values of r = rng.random() * total, in units of 1/DrawUnits
Draws(st, possible) ==
    LET total == SumOver(SeqRange(possible), weights)
    IN 0..(DrawUnits * total - 1)

\* `for p in 0..self.patterns.len()` of collapse: ban all but chosen
RECURSIVE BanOthers(_, _, _, _)
BanOthers(st, cell, chosen, p) ==
    IF p >= NumPatterns THEN st
    ELSE Eval(IF p # chosen /\ st.wave[cell][p] THEN ban(st, cell, p) ELSE st,
              LAMBDA s1 : BanOthers(s1, cell, chosen, p + 1))

\* collapse that takes possible[0] whatever the draw
collapse_keeps_first(st, cell, r) ==
    LET possible == Possible(st, cell)
    IN IF possible = <<>> THEN [st EXCEPT !.contradiction = TRUE]
       ELSE BanOthers(st, cell, possible[1], 0)

\* collapse that walks all the patterns, allowed or not, and writes the bit
\* of the chosen one
collapse_allows_chosen(st, cell, r) ==
    LET possible == Possible(st, cell)
        chosen == Chosen(IndexSeq(NumPatterns), r)
    IN IF possible = <<>> THEN [st EXCEPT !.contradiction = TRUE]
       ELSE [BanOthers(st, cell, chosen, 0)
                 EXCEPT !.wave[cell][chosen] = TRUE]

\* Wfc::collapse with the draw r
collapse(st, cell, r) ==
    LET possible == Possible(st, cell)
    IN IF possible = <<>> THEN [st EXCEPT !.contradiction = TRUE]
       ELSE BanOthers(st, cell, Chosen(possible, r), 0)

\* The states collapse can leave, over all draws
CollapseResults(st, cell) ==
    IF Possible(st, cell) = <<>> THEN {collapse(st, cell, 0)}
    ELSE {collapse(st, cell, r) : r \in Draws(st, Possible(st, cell))}

\* -------------------------------------------------------------- get_color
\* The RGB triples of the palette; a pixel of a sample is an index into it
Palette == << <<0, 0, 0>>, <<255, 255, 255>>, <<255, 0, 0>>, <<0, 0, 255>> >>

\* The Color of a pixel
RGB(c) == Palette[c + 1]

\* get_color that takes the mean of the top-left pixels without the weights
get_color_unweighted(x, y) ==
    LET cell == cell_index(x, y)
        possible == Possible(Mutable, cell)
        topleft(p) == RGB(Get(patterns[p], 0, 0))
        channel(ch) ==
            SumOver(SeqRange(possible),
                    [p \in PatternIds |-> topleft(p)[ch]]) \div Len(possible)
    IN IF Len(possible) = 0 THEN <<128, 0, 128>>
       ELSE IF Len(possible) = 1 THEN topleft(possible[1])
       ELSE <<channel(1), channel(2), channel(3)>>

\* Wfc::get_color for the cell of (x, y)
get_color(x, y) ==
    LET cell == cell_index(x, y)
        possible == Possible(Mutable, cell)
        topleft(p) == RGB(Get(patterns[p], 0, 0))
        total == SumOver(SeqRange(possible), weights)
        channel(ch) ==
            SumOver(SeqRange(possible),
                    [p \in PatternIds |-> topleft(p)[ch] * weights[p]]) \div total
    IN IF Len(possible) = 0 THEN <<128, 0, 128>>
       ELSE IF Len(possible) = 1 THEN topleft(possible[1])
       ELSE <<channel(1), channel(2), channel(3)>>

\* Wfc::render: get_color of every cell, row-major
render ==
    [cell \in Cells |->
        get_color(cell % config.output_width, cell \div config.output_width)]

\* ------------------------------------------------------------------- Init
SamplesOfSize(sw, sh) ==
    {Sample(sw, sh, px) : px \in [0..(sw * sh - 1) -> Colors]}

\* The samples new() is given: every image up to MaxSampleW x MaxSampleH,
\* every one-pixel-wide column up to MaxColumnH pixels high and every
\* one-pixel-high row up to MaxRowW pixels wide
Samples ==
    UNION ({SamplesOfSize(sw, sh) : sw \in 1..MaxSampleW, sh \in 1..MaxSampleH}
           \cup {SamplesOfSize(1, sh) : sh \in 1..MaxColumnH}
           \cup {SamplesOfSize(sw, 1) : sw \in 1..MaxRowW})

\* The configurations new() is given
Configs ==
    {WfcConfig(n, w, h, pin, pout, sym, gr, sd) :
         n \in MinN..MaxN, w \in 1..MaxOutW, h \in 1..MaxOutH,
         pin \in BOOLEAN, pout \in BOOLEAN, sym \in BOOLEAN,
         gr \in BOOLEAN, sd \in BOOLEAN}

\* No Pattern method has been called by a host
NoPatternCall ==
    /\ subject = Pattern(0, <<>>)
    /\ current = Pattern(0, <<>>)
    /\ applied = <<>>
    /\ orbit = <<>>

\* The state after Wfc::new(smp, cfg), the HashMap of extract_patterns
\* iterating in the given order
Constructed(smp, cfg, order) ==
    \E ex \in {extract_patterns(smp, cfg, order)} :
        /\ sample = smp
        /\ config = cfg
        /\ patterns = ex.patterns
        /\ weights = ex.weights
        /\ propagator = build_propagator(ex.patterns, cfg)
        /\ log_weights = [i \in DOMAIN ex.weights |-> Ln(ex.weights[i])]
        /\ top_patterns =
               [i \in DOMAIN ex.patterns |-> ex.patterns[i] \in ex.top_set]
        /\ bottom_patterns =
               [i \in DOMAIN ex.patterns |-> ex.patterns[i] \in ex.bottom_set]
        /\ left_patterns =
               [i \in DOMAIN ex.patterns |-> ex.patterns[i] \in ex.left_set]
        /\ right_patterns =
               [i \in DOMAIN ex.patterns |-> ex.patterns[i] \in ex.right_set]
        /\ \E st \in {new} :
               /\ wave = st.wave
               /\ sumsone = st.sumsone
               /\ sumweights = st.sumweights
               /\ sumweightlogweights = st.sumweightlogweights
               /\ stack = st.stack
               /\ contradiction = st.contradiction
        /\ done = FALSE
        /\ last_collapsed = <<>>
        /\ pc = "host"
        /\ op = "new"
        /\ ret = FALSE
        /\ steps = 0
        /\ NoPatternCall

\* No second solver has been built and no draw has been recorded
NoRecord ==
    /\ tape = <<>>
    /\ renders = <<>>
    /\ twin = FALSE
    /\ replayed = 0

\* The state after Wfc::new(sample, config)
Init ==
    \E smp \in Samples, cfg \in Configs, order \in IterationOrders :
        /\ Constructed(smp, cfg, order)
        /\ NoRecord

\* ---------------------------------------------------------------- actions
\* The assignment of the fields that ban, collapse and propagate write
Store(st) ==
    /\ wave' = st.wave
    /\ sumsone' = st.sumsone
    /\ sumweights' = st.sumweights
    /\ sumweightlogweights' = st.sumweightlogweights
    /\ stack' = st.stack
    /\ contradiction' = st.contradiction

\* step that clears last_collapsed when it returns early
step_clears_last_collapsed ==
    IF contradiction \/ done
    THEN /\ ret' = FALSE
         /\ last_collapsed' = <<>>
         /\ UNCHANGED <<wave, sumsone, sumweights, sumweightlogweights, stack,
                        contradiction, done, steps>>
    ELSE \E cell \in observe(Mutable) :
             IF cell = None
             THEN /\ contradiction' = ObserveContradiction(Mutable)
                  /\ done' = ~ObserveContradiction(Mutable)
                  /\ ret' = FALSE
                  /\ UNCHANGED <<wave, sumsone, sumweights, sumweightlogweights,
                                 stack, last_collapsed, steps>>
             ELSE \E collapsed \in CollapseResults(Mutable, cell) :
                      /\ Store(propagate(collapsed))
                      /\ last_collapsed' = <<cell % config.output_width,
                                             cell \div config.output_width>>
                      /\ ret' = TRUE
                      /\ steps' = steps + 1
                      /\ UNCHANGED done

\* step that returns true when observe returns None
step_true_on_none ==
    IF contradiction \/ done
    THEN /\ ret' = FALSE
         /\ UNCHANGED <<solver, steps>>
    ELSE \E cell \in observe(Mutable) :
             IF cell = None
             THEN /\ contradiction' = ObserveContradiction(Mutable)
                  /\ done' = ~ObserveContradiction(Mutable)
                  /\ ret' = TRUE
                  /\ UNCHANGED <<wave, sumsone, sumweights, sumweightlogweights,
                                 stack, last_collapsed, steps>>
             ELSE \E collapsed \in CollapseResults(Mutable, cell) :
                      /\ Store(propagate(collapsed))
                      /\ last_collapsed' = <<cell % config.output_width,
                                             cell \div config.output_width>>
                      /\ ret' = TRUE
                      /\ steps' = steps + 1
                      /\ UNCHANGED done

\* step that records (y, x) in last_collapsed
step_records_yx ==
    IF contradiction \/ done
    THEN /\ ret' = FALSE
         /\ UNCHANGED <<solver, steps>>
    ELSE \E cell \in observe(Mutable) :
             IF cell = None
             THEN /\ contradiction' = ObserveContradiction(Mutable)
                  /\ done' = ~ObserveContradiction(Mutable)
                  /\ ret' = FALSE
                  /\ UNCHANGED <<wave, sumsone, sumweights, sumweightlogweights,
                                 stack, last_collapsed, steps>>
             ELSE \E collapsed \in CollapseResults(Mutable, cell) :
                      /\ Store(propagate(collapsed))
                      /\ last_collapsed' = <<cell \div config.output_width,
                                             cell % config.output_width>>
                      /\ ret' = TRUE
                      /\ steps' = steps + 1
                      /\ UNCHANGED done

\* step that sets done whenever observe returns None
step_done_on_none ==
    IF contradiction \/ done
    THEN /\ ret' = FALSE
         /\ UNCHANGED <<solver, steps>>
    ELSE \E cell \in observe(Mutable) :
             IF cell = None
             THEN /\ contradiction' = ObserveContradiction(Mutable)
                  /\ done' = TRUE
                  /\ ret' = FALSE
                  /\ UNCHANGED <<wave, sumsone, sumweights, sumweightlogweights,
                                 stack, last_collapsed, steps>>
             ELSE \E collapsed \in CollapseResults(Mutable, cell) :
                      /\ Store(propagate(collapsed))
                      /\ last_collapsed' = <<cell % config.output_width,
                                             cell \div config.output_width>>
                      /\ ret' = TRUE
                      /\ steps' = steps + 1
                      /\ UNCHANGED done

\* Wfc::step
step ==
    IF contradiction \/ done
    THEN /\ ret' = FALSE
         /\ UNCHANGED <<solver, steps>>
    ELSE \E cell \in observe(Mutable) :
             IF cell = None
             THEN /\ contradiction' = ObserveContradiction(Mutable)
                  /\ done' = ~ObserveContradiction(Mutable)
                  /\ ret' = FALSE
                  /\ UNCHANGED <<wave, sumsone, sumweights, sumweightlogweights,
                                 stack, last_collapsed, steps>>
             ELSE \E collapsed \in CollapseResults(Mutable, cell) :
                      /\ Store(propagate(collapsed))
                      /\ last_collapsed' = <<cell % config.output_width,
                                             cell \div config.output_width>>
                      /\ ret' = TRUE
                      /\ steps' = steps + 1
                      /\ UNCHANGED done

\* The host calls step()
Step ==
    /\ pc = "host"
    /\ step
    /\ op' = "step"
    /\ UNCHANGED <<statics, pc, algebra, record>>

\* Wfc::run: one turn of `while self.step() {}`; the host's call makes the
\* first turn, and the loop goes on while step() returns true
Run ==
    /\ step
    /\ op' = "run"
    /\ pc' = IF ret' THEN "run" ELSE "host"
    /\ UNCHANGED <<statics, algebra, record>>

\* reset() that leaves done as it was
Reset_keeps_done ==
    /\ pc = "host"
    /\ Store(reset(Mutable))
    /\ last_collapsed' = <<>>
    /\ op' = "reset"
    /\ ret' = FALSE
    /\ steps' = 0
    /\ UNCHANGED <<statics, pc, done, algebra, record>>

\* The host calls reset()
Reset ==
    /\ pc = "host"
    /\ Store(reset(Mutable))
    /\ done' = FALSE
    /\ last_collapsed' = <<>>
    /\ op' = "reset"
    /\ ret' = FALSE
    /\ steps' = 0
    /\ UNCHANGED <<statics, pc, algebra, record>>

Next == Step \/ Run \/ Reset

Spec == Init /\ [][Next]_vars

\* ---------------------------------------------------------- the scenarios
\* The sides of the outputs the scenarios are run with
MaxScenarioOut == 3

\* The 4x4 black/white checkerboard
Checkerboard ==
    Sample(4, 4,
           [i \in 0..15 |->
                ((i % 4) + (i \div 4)) % 2])

\* The 4x4 sample of horizontal black/white stripes
Stripes ==
    Sample(4, 4,
           [i \in 0..15 |->
                (i \div 4) % 2])

\* The 4x4 all-black sample
Uniform ==
    Sample(4, 4,
           [i \in 0..15 |-> 0])

\* The configuration of a scenario: the fields the scenario leaves out are
\* those of WfcConfig::default()
ScenarioConfigs(smp) ==
    {WfcConfig(2, w, h, TRUE, FALSE, smp # Stripes, FALSE, FALSE) :
         w \in 1..MaxScenarioOut, h \in 1..MaxScenarioOut}

\* The state after Wfc::new on a scenario
ScenarioInit ==
    \E smp \in {Checkerboard, Stripes, Uniform} :
    \E cfg \in ScenarioConfigs(smp), order \in IterationOrders :
        /\ Constructed(smp, cfg, order)
        /\ NoRecord

ScenarioSpec == ScenarioInit /\ [][Next]_vars

\* ------------------------------------------------------------ two solvers
\* How many step() calls of the first solver are recorded
MaxTape == 2

\* The configurations the two solvers are built from
TwinConfigs ==
    {cfg \in Configs :
         ~cfg.symmetry /\ ~cfg.ground /\ ~cfg.sides /\ ~cfg.periodic_output}

\* Wfc::step when observe returns seen and collapse draws r
step_drawn(seen, r) ==
    IF contradiction \/ done
    THEN /\ ret' = FALSE
         /\ UNCHANGED <<solver, steps>>
    ELSE /\ seen \in observe(Mutable)
         /\ IF seen = None
            THEN /\ contradiction' = ObserveContradiction(Mutable)
                 /\ done' = ~ObserveContradiction(Mutable)
                 /\ ret' = FALSE
                 /\ UNCHANGED <<wave, sumsone, sumweights, sumweightlogweights,
                                stack, last_collapsed, steps>>
            ELSE /\ Store(propagate(collapse(Mutable, seen, r)))
                 /\ last_collapsed' = <<seen % config.output_width,
                                        seen \div config.output_width>>
                 /\ ret' = TRUE
                 /\ steps' = steps + 1
                 /\ UNCHANGED done

\* The state after the first solver's Wfc::new(sample, config)
TwinInit ==
    \E smp \in Samples, cfg \in TwinConfigs, order \in IterationOrders :
        /\ Constructed(smp, cfg, order)
        /\ NoRecord

\* The host calls step() on the first solver and render() after it; the
\* draws and the image are recorded
Record ==
    /\ ~twin
    /\ Len(tape) < MaxTape
    /\ UNCHANGED <<statics, pc, algebra, twin, replayed>>
    /\ \E seen \in observe(Mutable) :
       \E r \in IF seen = None THEN {0}
                ELSE Draws(Mutable, Possible(Mutable, seen)) :
           /\ step_drawn(seen, r)
           /\ tape' = Append(tape, <<seen, r>>)
    /\ renders' = Append(renders, render')
    /\ op' = "step"

\* The host builds the second solver with Wfc::new from the same sample and
\* the same configuration
Rebuild ==
    /\ ~twin
    /\ tape # <<>>
    /\ \E order \in IterationOrders :
       \E ex \in {extract_patterns(sample, config, order)} :
           /\ patterns' = ex.patterns
           /\ weights' = ex.weights
           /\ propagator' = build_propagator(ex.patterns, config)
           /\ log_weights' = [i \in DOMAIN ex.weights |-> Ln(ex.weights[i])]
           /\ top_patterns' =
                  [i \in DOMAIN ex.patterns |-> ex.patterns[i] \in ex.top_set]
           /\ bottom_patterns' =
                  [i \in DOMAIN ex.patterns |-> ex.patterns[i] \in ex.bottom_set]
           /\ left_patterns' =
                  [i \in DOMAIN ex.patterns |-> ex.patterns[i] \in ex.left_set]
           /\ right_patterns' =
                  [i \in DOMAIN ex.patterns |-> ex.patterns[i] \in ex.right_set]
    /\ UNCHANGED <<sample, config>>
    /\ \E st \in {new'} :
           /\ wave' = st.wave
           /\ sumsone' = st.sumsone
           /\ sumweights' = st.sumweights
           /\ sumweightlogweights' = st.sumweightlogweights
           /\ stack' = st.stack
           /\ contradiction' = st.contradiction
    /\ done' = FALSE
    /\ last_collapsed' = <<>>
    /\ op' = "new"
    /\ ret' = FALSE
    /\ steps' = 0
    /\ twin' = TRUE
    /\ UNCHANGED <<pc, algebra, tape, renders, replayed>>

\* The host calls step() on the second solver, which is given the draws the
\* first solver was given in its call of the same rank
Replay ==
    /\ twin
    /\ replayed < Len(tape)
    /\ step_drawn(tape[replayed + 1][1], tape[replayed + 1][2])
    /\ replayed' = replayed + 1
    /\ op' = "step"
    /\ UNCHANGED <<statics, pc, algebra, tape, renders, twin>>

TwinNext == Record \/ Rebuild \/ Replay

TwinSpec == TwinInit /\ [][TwinNext]_vars

\* ------------------------------------------------- the walk of collapse
\* How far beyond the total allowed weight, in units of weight, the values
\* of r reach that the walk is applied to
MaxExcess == 1

\* The configurations of the solvers whose cells are collapsed
WalkConfigs == {cfg \in Configs : ~cfg.ground /\ ~cfg.sides}

\* The state after Wfc::new(sample, config)
WalkInit ==
    \E smp \in Samples, cfg \in WalkConfigs, order \in IterationOrders :
        /\ Constructed(smp, cfg, order)
        /\ NoRecord

\* collapse(cell) as a function of the value r that its walk starts from: r
\* is an f64, and the walk is applied to the values below the total allowed
\* weight, which rng.random() * total yields, and to values beyond it, for
\* which no pattern is found
Collapse ==
    /\ pc = "host"
    /\ tape = <<>>
    /\ \E cell \in Cells :
       \E r \in 0..(DrawUnits * (SumOver(SeqRange(Possible(Mutable, cell)),
                                            weights) + MaxExcess)) :
           /\ Store(collapse(Mutable, cell, r))
           /\ tape' = <<<<cell, r>>>>
    /\ op' = "collapse"
    /\ UNCHANGED <<statics, done, last_collapsed, pc, ret, steps, algebra,
                   renders, twin, replayed>>

WalkNext == Collapse

WalkSpec == WalkInit /\ [][WalkNext]_vars

\* ------------------------------------------------- the solver of lib.rs
\* Wfc::new of src/src/lib.rs, the fields that ban and propagate write
lib_new ==
    LET num_patterns == NumPatterns
        total_weight == SumOver(PatternIds, weights)
        sumweightlogweight ==
            SumOver(PatternIds, [p \in PatternIds |-> weights[p] * Ln(weights[p])])
    IN [wave |-> [c \in Cells |-> [p \in PatternIds |-> TRUE]],
        sumsone |-> [c \in Cells |-> num_patterns],
        sumweights |-> [c \in Cells |-> total_weight],
        sumweightlogweights |-> [c \in Cells |-> sumweightlogweight],
        stack |-> <<>>,
        contradiction |-> FALSE,
        returned |-> FALSE]

\* reset of src/src/lib.rs without self.stack.clear()
lib_reset_keeps_stack(st) ==
    LET num_patterns == NumPatterns
        total_weight == SumOver(PatternIds, weights)
        sumweightlogweight ==
            SumOver(PatternIds, [p \in PatternIds |-> weights[p] * log_weights[p]])
    IN [st EXCEPT
          !.wave = [c \in Cells |-> [p \in PatternIds |-> TRUE]],
          !.sumsone = [c \in Cells |-> num_patterns],
          !.sumweights = [c \in Cells |-> total_weight],
          !.sumweightlogweights = [c \in Cells |-> sumweightlogweight],
          !.contradiction = FALSE]

\* Wfc::reset of src/src/lib.rs, the fields that ban and propagate write
lib_reset(st) ==
    LET num_patterns == NumPatterns
        total_weight == SumOver(PatternIds, weights)
        sumweightlogweight ==
            SumOver(PatternIds, [p \in PatternIds |-> weights[p] * log_weights[p]])
    IN [st EXCEPT
          !.wave = [c \in Cells |-> [p \in PatternIds |-> TRUE]],
          !.sumsone = [c \in Cells |-> num_patterns],
          !.sumweights = [c \in Cells |-> total_weight],
          !.sumweightlogweights = [c \in Cells |-> sumweightlogweight],
          !.stack = <<>>,
          !.contradiction = FALSE]

\* `for &p in &possible` of collapse of src/src/lib.rs from the k-th entry:
\* r -= weights[p]; if r <= 0 { chosen = p; break }, chosen being
\* possible[0] before the loop
RECURSIVE LibWalk(_, _, _)
LibWalk(possible, k, r) ==
    IF k > Len(possible) THEN possible[1]
    ELSE LET r1 == r - DrawUnits * weights[possible[k]]
         IN IF r1 <= 0 THEN possible[k] ELSE LibWalk(possible, k + 1, r1)

\* Wfc::collapse of src/src/lib.rs with the draw r; ban and propagate of
\* lib.rs are those of wfc.rs, statement for statement
lib_collapse(st, cell, r) ==
    LET possible == Possible(st, cell)
    IN IF possible = <<>> THEN [st EXCEPT !.contradiction = TRUE]
       ELSE BanOthers(st, cell, LibWalk(possible, 1, r), 0)

\* ------------------------------------------------- the steps inside new()
\* The pattern sizes extract_patterns is given
ExtractSizes == 1..MaxN

\* The configurations extract_patterns is given; it reads pattern_size,
\* periodic_input, symmetry, ground and sides
ExtractConfigs ==
    {WfcConfig(n, 1, 1, pin, FALSE, sym, gr, sd) :
         n \in ExtractSizes, pin \in BOOLEAN, sym \in BOOLEAN,
         gr \in BOOLEAN, sd \in BOOLEAN}

\* No field of Wfc has a value yet
NoFields ==
    /\ patterns = <<>>
    /\ weights = <<>>
    /\ propagator = <<>>
    /\ log_weights = <<>>
    /\ top_patterns = <<>>
    /\ bottom_patterns = <<>>
    /\ left_patterns = <<>>
    /\ right_patterns = <<>>
    /\ wave = <<>>
    /\ sumsone = <<>>
    /\ sumweights = <<>>
    /\ sumweightlogweights = <<>>
    /\ stack = <<>>
    /\ contradiction = FALSE
    /\ done = FALSE
    /\ last_collapsed = <<>>
    /\ ret = FALSE
    /\ steps = 0

\* Wfc::new(sample, config) has been entered
ExtractInit ==
    /\ sample \in Samples
    /\ config \in ExtractConfigs
    /\ NoFields
    /\ pc = "new"
    /\ op = "new"
    /\ NoPatternCall
    /\ NoRecord

\* The first statements of new(): extract_patterns, build_propagator and
\* the four edge vectors
Extract ==
    /\ pc = "new"
    /\ \E order \in IterationOrders :
       \E ex \in {extract_patterns(sample, config, order)} :
           /\ patterns' = ex.patterns
           /\ weights' = ex.weights
           /\ propagator' = build_propagator(ex.patterns, config)
           /\ top_patterns' =
                  [i \in DOMAIN ex.patterns |-> ex.patterns[i] \in ex.top_set]
           /\ bottom_patterns' =
                  [i \in DOMAIN ex.patterns |-> ex.patterns[i] \in ex.bottom_set]
           /\ left_patterns' =
                  [i \in DOMAIN ex.patterns |-> ex.patterns[i] \in ex.left_set]
           /\ right_patterns' =
                  [i \in DOMAIN ex.patterns |-> ex.patterns[i] \in ex.right_set]
    /\ pc' = "extracted"
    /\ UNCHANGED <<sample, config, log_weights, solver, op, ret, steps, algebra, record>>

ExtractNext == Extract

ExtractSpec == ExtractInit /\ [][ExtractNext]_vars

\* ------------------------------------------------- the Pattern methods
\* The largest pattern a host calls the Pattern methods on, and the most
\* rotate()/reflect() calls it chains
MaxSubjectN == 3
MaxApplied == 4

PatternsOfSize(n) == {Pattern(n, px) : px \in [0..(n * n - 1) -> Colors]}

\* The patterns the Pattern methods are called on
SubjectPatterns == UNION {PatternsOfSize(n) : n \in 1..MaxSubjectN}

\* A host holds a Pattern and no solver
PatternInit ==
    /\ sample = Sample(0, 0, <<>>)
    /\ config = WfcConfig(0, 0, 0, FALSE, FALSE, FALSE, FALSE, FALSE)
    /\ NoFields
    /\ pc = "host"
    /\ op = "none"
    /\ subject \in SubjectPatterns
    /\ current = subject
    /\ applied = <<>>
    /\ orbit = <<>>
    /\ NoRecord

\* current = current.rotate()
Rotate ==
    /\ Len(applied) < MaxApplied
    /\ orbit = <<>>
    /\ current' = rotate(current)
    /\ applied' = Append(applied, "rotate")
    /\ UNCHANGED <<statics, solver, pc, op, ret, steps, record, subject, orbit>>

\* current = current.reflect()
Reflect ==
    /\ Len(applied) < MaxApplied
    /\ orbit = <<>>
    /\ current' = reflect(current)
    /\ applied' = Append(applied, "reflect")
    /\ UNCHANGED <<statics, solver, pc, op, ret, steps, record, subject, orbit>>

\* orbit = current.symmetries(), of src/src/pattern.rs
Symmetries ==
    /\ orbit = <<>>
    /\ orbit' = SetToSeq(symmetries(current))
    /\ UNCHANGED <<statics, solver, pc, op, ret, steps, record, subject, current,
                   applied>>

\* orbit = current.symmetries(), of src/src/lib.rs
LibSymmetries ==
    /\ orbit = <<>>
    /\ orbit' = lib_symmetries(current)
    /\ UNCHANGED <<statics, solver, pc, op, ret, steps, record, subject, current,
                   applied>>

PatternNext == Rotate \/ Reflect \/ Symmetries \/ LibSymmetries

PatternSpec == PatternInit /\ [][PatternNext]_vars

\* ------------------------------------------------------------- properties
\* The patterns the wave allows in a cell
Allowed(cell) == {p \in PatternIds : wave[cell][p]}

\* Every cell has at least one allowed pattern, by the counters
NoEmptyCell == \A cell \in Cells : sumsone[cell] > 0

\* The cells of the top and bottom rows, of the left and right columns
TopRow == {cell \in Cells : cell \div config.output_width = 0}
BottomRow ==
    {cell \in Cells : cell \div config.output_width = config.output_height - 1}
LeftColumn == {cell \in Cells : cell % config.output_width = 0}
RightColumn ==
    {cell \in Cells : cell % config.output_width = config.output_width - 1}

\* C1: in every reachable state and for every cell, sumsone is the number of
\* true entries of the wave vector, sumweights the sum of the weights of the
\* allowed patterns and sumweightlogweights the sum of their
\* weights[p] * log_weights[p].
C1_StatisticsMatchWave ==
    \A cell \in Cells :
        /\ sumsone[cell] = Cardinality(Allowed(cell))
        /\ sumweights[cell] = SumOver(Allowed(cell), weights)
        /\ sumweightlogweights[cell] =
               SumOver(Allowed(cell),
                       [p \in PatternIds |-> weights[p] * log_weights[p]])

\* C1 witness: a step() has banned patterns of unequal weights from a cell
\* that still allows some.
C1_Witness ==
    /\ op = "step" /\ ret
    /\ \E cell \in Cells :
           /\ 0 < sumsone[cell] /\ sumsone[cell] < NumPatterns
           /\ \E p, q \in PatternIds :
                  /\ ~wave[cell][p] /\ ~wave[cell][q]
                  /\ weights[p] # weights[q]

\* The origins (x, y) of the N x N windows of the output that exist under
\* the periodic_output rule
OutputWindows ==
    {pos \in (0..(config.output_width - 1)) \X (0..(config.output_height - 1)) :
         \/ config.periodic_output
         \/ /\ pos[1] + config.pattern_size <= config.output_width
            /\ pos[2] + config.pattern_size <= config.output_height}

\* The window of the rendered output at origin pos is pattern p, pixel for
\* pixel
WindowIs(pos, p) ==
    \A i, j \in 0..(config.pattern_size - 1) :
        render[cell_index((pos[1] + i) % config.output_width,
                          (pos[2] + j) % config.output_height)]
            = RGB(Get(patterns[p], i, j))

\* C2: whenever done is true, every N x N window of the rendered output that
\* exists under the periodic_output rule equals one of the extracted
\* patterns, for every sample and configuration.
C2_DoneWindowsArePatterns ==
    done => \A pos \in OutputWindows : \E p \in PatternIds : WindowIs(pos, p)

\* C3: in every state the host observes, and for a solver with at least one
\* pattern, contradiction is false if and only if every cell has sumsone > 0.
C3_ContradictionIffEmptyCell ==
    (pc = "host" /\ NumPatterns > 0) => (~contradiction <=> NoEmptyCell)

\* C4: done implies that every cell has sumsone = 1, and done is set only
\* by a step() that found no cell with sumsone >= 2 and none with
\* sumsone = 0.
C4_DoneMeansAllCollapsed ==
    /\ [](done => \A cell \in Cells : sumsone[cell] = 1)
    /\ [][(~done /\ done') =>
              /\ op' \in {"step", "run"}
              /\ ret' = FALSE
              /\ \A cell \in Cells : sumsone[cell] = 1]_vars

\* C4 witness: done was set for an output of several cells after steps that
\* collapsed some.
C4_Witness == done /\ WaveSize >= 2 /\ steps >= 1 /\ NumPatterns >= 2

\* C5: a step() called with contradiction or done true returns false and
\* leaves wave, sumsone, sumweights, sumweightlogweights, stack,
\* contradiction, done and last_collapsed unchanged; only reset() leaves a
\* terminal state.
C5_TerminalStatesAreFrozen ==
    [][(contradiction \/ done) =>
           /\ op' \in {"step", "run"} => (ret' = FALSE /\ UNCHANGED solver)
           /\ ~(contradiction' \/ done') => op' = "reset"]_vars

\* C5 witness: step() was called again after a step() whose propagation
\* aborted on a contradiction; the stack the abort left is still there.
C5_Witness ==
    /\ op = "step" /\ ~ret
    /\ contradiction /\ stack # <<>> /\ steps >= 1

\* C6: step() returns true at most W * H times between two resets, and when
\* run() has returned, done or contradiction is true.
C6_RunTerminates ==
    /\ steps <= WaveSize
    /\ (op = "run" /\ pc = "host") => (done \/ contradiction)

\* C6 witness: run() has returned after collapsing every one of several cells.
C6_Witness ==
    /\ op = "run" /\ pc = "host"
    /\ WaveSize >= 2 /\ steps = WaveSize

\* C7: after reset(), wave, sumsone, sumweights, contradiction, done,
\* last_collapsed and stack have the values new() gave them for the same
\* sample and configuration.
C7_ResetRestoresNew ==
    op = "reset" =>
        /\ wave = new.wave
        /\ sumsone = new.sumsone
        /\ sumweights = new.sumweights
        /\ stack = new.stack
        /\ contradiction = new.contradiction
        /\ done = FALSE
        /\ last_collapsed = <<>>

\* C7 witness: reset() has returned with the stack that an aborted
\* propagation of the edge constraints leaves.
C7_Witness == op = "reset" /\ contradiction /\ stack # <<>>

\* C8 as claimed: right after reset() returns, contradiction and done are
\* both false, for every configuration.
C8_ResetIsActive == op = "reset" => (~contradiction /\ ~done)

\* C8 amended: right after reset() returns, done is false, and contradiction
\* is true only if ground or sides is set and the propagation of the edge
\* constraints emptied a cell.
C8_ResetActiveUnlessEdgesContradict ==
    op = "reset" =>
        /\ ~done
        /\ contradiction =>
               /\ config.ground \/ config.sides
               /\ ~NoEmptyCell

\* C8 witness: reset() has returned Active for a configuration with edge
\* constraints that ban some pattern.
C8_Witness ==
    /\ op = "reset" /\ ~contradiction /\ ~done
    /\ config.ground \/ config.sides
    /\ \E cell \in Cells : sumsone[cell] < NumPatterns

\* C9: with ground, in every state every cell of the top row allows only
\* patterns of top_patterns and every cell of the bottom row only patterns
\* of bottom_patterns.
C9_GroundRows ==
    config.ground =>
        /\ \A cell \in TopRow : \A p \in Allowed(cell) : top_patterns[p]
        /\ \A cell \in BottomRow : \A p \in Allowed(cell) : bottom_patterns[p]

\* C9 witness: with ground and several rows, a step() was taken while some
\* pattern is not a top pattern and some pattern is not a bottom pattern.
C9_Witness ==
    /\ config.ground /\ config.output_height >= 2
    /\ op = "step" /\ ret
    /\ \E p \in PatternIds : ~top_patterns[p]
    /\ \E p \in PatternIds : ~bottom_patterns[p]

\* C10: with sides, in every state every cell of the leftmost column allows
\* only patterns of left_patterns and every cell of the rightmost column
\* only patterns of right_patterns.
C10_SideColumns ==
    config.sides =>
        /\ \A cell \in LeftColumn : \A p \in Allowed(cell) : left_patterns[p]
        /\ \A cell \in RightColumn : \A p \in Allowed(cell) : right_patterns[p]

\* C10 witness: with sides and several columns, a step() was taken while
\* some pattern is not a left pattern and some pattern is not a right
\* pattern.
C10_Witness ==
    /\ config.sides /\ config.output_width >= 2
    /\ op = "step" /\ ret
    /\ \E p \in PatternIds : ~left_patterns[p]
    /\ \E p \in PatternIds : ~right_patterns[p]

\* C11 as claimed: no solver that new() returned has patterns.len() = 0.
C11_NoSolverWithoutPatterns == NumPatterns > 0

\* The patterns i and j hold the same colours where j, moved by (ddx, ddy),
\* lies over i
Overlap(i, j, ddx, ddy) ==
    \A x, y \in 0..(config.pattern_size - 1) :
        (/\ Max(0, ddx) <= x /\ x < config.pattern_size + Min(0, ddx)
         /\ Max(0, ddy) <= y /\ y < config.pattern_size + Min(0, ddy))
        => Get(patterns[i], x, y) = Get(patterns[j], x - ddx, y - ddy)

\* C12: for all pattern indices i, j and every direction d, j is in
\* propagator[i][d] if and only if the two patterns hold the same colours on
\* their overlap at the offset of d, and every list is strictly ascending,
\* so no index appears twice.
C12_PropagatorIsOverlap ==
    pc = "extracted" =>
        \A i \in PatternIds : \A d \in 0..3 :
            /\ \A j \in PatternIds :
                   j \in SeqRange(propagator[i][d])
                       <=> Overlap(i, j, dx(d), dy(d))
            /\ \A a, b \in 1..Len(propagator[i][d]) :
                   a < b => propagator[i][d][a] < propagator[i][d][b]

\* C12 witness: patterns of two pixels a side were extracted, and some list
\* holds several indices and leaves one out.
C12_Witness ==
    /\ pc = "extracted" /\ config.pattern_size >= 2
    /\ \E i \in PatternIds : \E d \in 0..3 :
           /\ Len(propagator[i][d]) >= 2
           /\ Len(propagator[i][d]) < NumPatterns

\* C13: j is in propagator[i][Right] iff i is in propagator[j][Left], and j
\* is in propagator[i][Down] iff i is in propagator[j][Up].
C13_PropagatorOpposite ==
    pc = "extracted" =>
        \A i, j \in PatternIds :
            /\ j \in SeqRange(propagator[i][Right])
                   <=> i \in SeqRange(propagator[j][Left])
            /\ j \in SeqRange(propagator[i][Down])
                   <=> i \in SeqRange(propagator[j][Up])

\* C13 witness: some j may stand right of i while i may not stand right of
\* j, and some j may stand below i while i may not stand below j.
C13_Witness ==
    /\ pc = "extracted"
    /\ \E i, j \in PatternIds :
           /\ j \in SeqRange(propagator[i][Right])
           /\ i \notin SeqRange(propagator[j][Right])
    /\ \E i, j \in PatternIds :
           /\ j \in SeqRange(propagator[i][Down])
           /\ i \notin SeqRange(propagator[j][Down])

\* C14: rotate applied four times returns the pattern it started from, so
\* does reflect applied twice, and so does rotate-then-reflect applied twice.
C14_RotateReflectCycles ==
    /\ applied = <<"rotate", "rotate", "rotate", "rotate">>
           => current = subject
    /\ applied = <<"reflect", "reflect">> => current = subject
    /\ applied = <<"rotate", "reflect", "rotate", "reflect">>
           => current = subject

\* C14 witness: rotate-then-reflect was applied twice to a pattern of the
\* largest size that neither rotate nor reflect leaves as it is.
C14_Witness ==
    /\ applied = <<"rotate", "reflect", "rotate", "reflect">>
    /\ subject.size = MaxSubjectN
    /\ rotate(subject) # subject
    /\ reflect(subject) # subject
    /\ reflect(rotate(subject)) # subject

\* The least set that holds the patterns of S and is closed under rotate
\* and reflect
RECURSIVE DihedralClosure(_)
DihedralClosure(S) ==
    LET T == S \cup {rotate(q) : q \in S} \cup {reflect(q) : q \in S}
    IN IF T = S THEN S ELSE DihedralClosure(T)

\* C15: symmetries() returns between 1 and 8 patterns, pairwise distinct,
\* among them the pattern it was called on, and they are exactly the orbit
\* of that pattern under rotate and reflect.
C15_SymmetriesIsOrbit ==
    orbit # <<>> =>
        /\ Len(orbit) >= 1 /\ Len(orbit) <= 8
        /\ \A a, b \in 1..Len(orbit) : a # b => orbit[a] # orbit[b]
        /\ current \in SeqRange(orbit)
        /\ SeqRange(orbit) = DihedralClosure({current})

\* C15 witness: symmetries() returned eight patterns.
C15_Witness == Len(orbit) = 8

\* C16 as claimed: with symmetry, for every setting of ground and sides,
\* rotate(p) and reflect(p) of every extracted pattern p are extracted with
\* the weight of p.
C16_SymmetryClosesExtraction ==
    (pc = "extracted" /\ config.symmetry) =>
        \A i \in PatternIds :
            /\ \E j \in PatternIds : /\ patterns[j] = rotate(patterns[i])
                                     /\ weights[j] = weights[i]
            /\ \E j \in PatternIds : /\ patterns[j] = reflect(patterns[i])
                                     /\ weights[j] = weights[i]

\* C16 amended: with symmetry, reflect(p) of every extracted pattern p is
\* extracted with the weight of p, and so is rotate(p) when neither ground
\* nor sides is set.
C16_SymmetryClosesUnlessEdges ==
    (pc = "extracted" /\ config.symmetry) =>
        \A i \in PatternIds :
            /\ (~config.ground /\ ~config.sides) =>
                   \E j \in PatternIds : /\ patterns[j] = rotate(patterns[i])
                                         /\ weights[j] = weights[i]
            /\ \E j \in PatternIds : /\ patterns[j] = reflect(patterns[i])
                                     /\ weights[j] = weights[i]

\* C16 witness: with symmetry and no edge constraint, a pattern that rotate
\* and reflect both change was extracted with a weight above one while
\* another pattern has another weight.
C16_Witness ==
    /\ pc = "extracted" /\ config.symmetry
    /\ ~config.ground /\ ~config.sides
    /\ \E i, k \in PatternIds :
           /\ rotate(patterns[i]) # patterns[i]
           /\ reflect(patterns[i]) # patterns[i]
           /\ weights[i] >= 2
           /\ weights[k] # weights[i]

\* The window positions the configuration allows: every pixel of the sample
\* with periodic_input, else the positions whose window lies inside the
\* sample
AllowedWindows ==
    {pos \in (0..(sample.width - 1)) \X (0..(sample.height - 1)) :
         \/ config.periodic_input
         \/ /\ pos[1] + config.pattern_size <= sample.width
            /\ pos[2] + config.pattern_size <= sample.height}

\* The window at pos, read with modulo-wrapped coordinates
WindowAt(pos) ==
    Pattern(config.pattern_size,
            [i \in 0..(config.pattern_size * config.pattern_size - 1) |->
                sample.pixels[
                    ((pos[2] + (i \div config.pattern_size)) % sample.height)
                        * sample.width
                    + ((pos[1] + (i % config.pattern_size)) % sample.width)]])

\* C17: the extracted patterns are the variants of the windows at exactly
\* the positions the configuration allows, and without symmetry the weights
\* sum to the number of those windows and weights[i] is the number of
\* windows equal to patterns[i].
C17_WindowsAndCounts ==
    pc = "extracted" =>
        /\ {patterns[i] : i \in PatternIds}
               = UNION {SeqRange(Variants(WindowAt(pos), config)) :
                            pos \in AllowedWindows}
        /\ ~config.symmetry =>
               /\ SumOver(PatternIds, weights) = Cardinality(AllowedWindows)
               /\ \A i \in PatternIds :
                      weights[i] =
                          Cardinality({pos \in AllowedWindows :
                                           WindowAt(pos) = patterns[i]})

\* C17 witness: without symmetry and without periodic_input, windows
\* smaller than the sample gave several patterns of unequal weights.
C17_Witness ==
    /\ pc = "extracted" /\ ~config.symmetry /\ ~config.periodic_input
    /\ \E i, j \in PatternIds : weights[i] >= 2 /\ weights[j] # weights[i]

\* The patterns that are a variant of some allowed window satisfying Edge
VariantsOfWindows(Edge(_)) ==
    UNION {SeqRange(Variants(WindowAt(pos), config)) :
               pos \in {q \in AllowedWindows : Edge(q)}}

\* C18: top_patterns[i] is true iff patterns[i] is a variant of some window
\* with y = 0, bottom_patterns[i] iff of some window with y + N >= height,
\* left_patterns[i] iff of some window with x = 0, and right_patterns[i] iff
\* of some window with x + N >= width.
C18_EdgeVectors ==
    pc = "extracted" =>
        \A i \in PatternIds :
            /\ top_patterns[i] <=>
                   patterns[i] \in VariantsOfWindows(LAMBDA q : q[2] = 0)
            /\ bottom_patterns[i] <=>
                   patterns[i] \in VariantsOfWindows(
                       LAMBDA q : q[2] + config.pattern_size >= sample.height)
            /\ left_patterns[i] <=>
                   patterns[i] \in VariantsOfWindows(LAMBDA q : q[1] = 0)
            /\ right_patterns[i] <=>
                   patterns[i] \in VariantsOfWindows(
                       LAMBDA q : q[1] + config.pattern_size >= sample.width)

\* C18 witness: with symmetry, some pattern is a top pattern that is no
\* window with y = 0 itself, and some pattern is not a top pattern.
C18_Witness ==
    /\ pc = "extracted" /\ config.symmetry
    /\ \E i \in PatternIds :
           /\ top_patterns[i]
           /\ \A pos \in AllowedWindows :
                  pos[2] = 0 => WindowAt(pos) # patterns[i]
    /\ \E i \in PatternIds : ~top_patterns[i]

\* C19 as claimed: for a 1 x 1 sample with pattern_size = 1 and
\* periodic_input, extraction yields exactly one pattern, of weight 1, for
\* every setting of symmetry, ground and sides.
C19_OnePixelOnePattern ==
    (/\ pc = "extracted"
     /\ sample.width = 1 /\ sample.height = 1
     /\ config.pattern_size = 1 /\ config.periodic_input)
    => (NumPatterns = 1 /\ weights[0] = 1)

\* C20: the extracted patterns are pairwise distinct, every weight is an
\* integer of at least 1, and every cell that allows a pattern has
\* sumweights > 0.
C20_DistinctPositive ==
    /\ \A i, j \in PatternIds : i # j => patterns[i] # patterns[j]
    /\ \A i \in PatternIds : weights[i] \in Nat /\ weights[i] >= 1
    /\ \A cell \in Cells : Allowed(cell) # {} => sumweights[cell] > 0

\* C20 witness: several patterns, one of them extracted more than once, and
\* after a step() a cell that allows some of them and not all.
C20_Witness ==
    /\ op = "step" /\ ret /\ NumPatterns >= 3
    /\ \E i \in PatternIds : weights[i] >= 2
    /\ \E cell \in Cells :
           Allowed(cell) # {} /\ Allowed(cell) # PatternIds

\* C25: a step() returns true if and only if it cleared at least one wave
\* bit, which it does in the cell it observed, and a step() that returns
\* false leaves the wave and the per-cell statistics as they were.
C25_StepTrueIffWork ==
    [][op' \in {"step", "run"} =>
           /\ ret' <=> \E cell \in Cells : \E p \in PatternIds :
                           wave[cell][p] /\ ~wave'[cell][p]
           /\ ret' => \E p \in PatternIds :
                          LET cell == cell_index(last_collapsed'[1],
                                                 last_collapsed'[2])
                          IN wave[cell][p] /\ ~wave'[cell][p]
           /\ ~ret' => UNCHANGED <<wave, sumsone, sumweights,
                                  sumweightlogweights>>]_vars

\* C25 witness: inside run(), a step() has returned true after an earlier
\* one.
C25_Witness == op = "run" /\ pc = "run" /\ ret /\ steps >= 2

\* C26: get_color is [128,0,128] for a cell that allows no pattern, the
\* top-left pixel of the pattern for a cell that allows exactly one, and
\* otherwise per channel the floor of the weighted mean of the top-left
\* pixels of the allowed patterns, which lies between the least and the
\* greatest of them.
C26_GetColor ==
    \A cell \in Cells :
        LET A == Allowed(cell)
            color == get_color(cell % config.output_width,
                               cell \div config.output_width)
            top(p) == Palette[patterns[p].pixels[0] + 1]
            total == SumOver(A, weights)
            mass(ch) == SumOver(A, [p \in PatternIds |-> weights[p] * top(p)[ch]])
        IN /\ A = {} => color = <<128, 0, 128>>
           /\ \A p \in A : A = {p} => color = top(p)
           /\ Cardinality(A) >= 2 =>
                  \A ch \in 1..3 :
                      /\ color[ch] * total <= mass(ch)
                      /\ mass(ch) < (color[ch] + 1) * total
                      /\ \E p \in A : top(p)[ch] <= color[ch]
                      /\ \E p \in A : color[ch] <= top(p)[ch]

\* C26 witness: a cell allows no pattern while another allows patterns of
\* unequal weights and unequal top-left pixels.
C26_Witness ==
    /\ \E cell \in Cells : Allowed(cell) = {}
    /\ \E cell \in Cells : \E p, q \in Allowed(cell) :
           /\ weights[p] # weights[q]
           /\ patterns[p].pixels[0] # patterns[q].pixels[0]

\* C27: ban of an already banned (cell, p) changes nothing, so a second
\* ban(cell, p) leaves the state the first one left.
C27_BanIdempotent ==
    \A cell \in Cells : \A p \in PatternIds :
        LET once == ban(Mutable, cell, p)
        IN /\ ban(once, cell, p) = once
           /\ ~wave[cell][p] => once = Mutable

\* C27 witness: some cell has a banned and an allowed pattern while the
\* stack holds entries.
C27_Witness ==
    /\ stack # <<>>
    /\ \E cell \in Cells : \E p, q \in PatternIds :
           ~wave[cell][p] /\ wave[cell][q]

\* C28: without periodic_output, every cell index that
\* apply_edge_constraints and propagate compute is in [0, W*H).
C28_IndicesInRange ==
    ~config.periodic_output =>
        /\ EdgeCells \subseteq Cells
        /\ \A cell \in Cells : \A dir \in 0..3 :
               Neighbors(cell, dir) \subseteq Cells

\* C28 witness: run() has returned after collapsing cells of an output
\* narrower than the patterns, with sides and without periodic_output.
C28_Witness ==
    /\ ~config.periodic_output /\ config.sides
    /\ config.output_width < config.pattern_size
    /\ config.output_height > 1
    /\ op = "run" /\ pc = "host" /\ steps >= 1

\* C29: the cell a step() observes has sumsone >= 2 and an entropy
\* ln(sumweights) - sumweightlogweights / sumweights within the noise
\* amplitude of the least entropy of the cells with sumsone >= 2, and
\* observe returns no cell exactly when no cell has sumsone >= 2 or some
\* cell has sumsone = 0.
C29_ObserveLeastEntropy ==
    [][(op' \in {"step", "run"} /\ ~contradiction /\ ~done) =>
           LET open == {c \in Cells : sumsone[c] >= 2}
               e(c) == Ln(sumweights[c])
                           - (sumweightlogweights[c] \div sumweights[c])
               seen == cell_index(last_collapsed'[1], last_collapsed'[2])
           IN /\ ret' => /\ seen \in open
                         /\ \A c \in open : e(seen) <= e(c) + NoiseAmplitude
              /\ ~ret' <=> (open = {} \/ \E c \in Cells : sumsone[c] = 0)]_vars

\* C29 witness: after a step() that returned true, two cells with
\* sumsone >= 2 have entropies further apart than the noise amplitude.
C29_Witness ==
    /\ op = "step" /\ ret
    /\ \E c1, c2 \in Cells :
           /\ sumsone[c1] >= 2 /\ sumsone[c2] >= 2
           /\ entropy(Mutable, c1) - entropy(Mutable, c2) > NoiseAmplitude

\* C30 as claimed: whenever a call has returned with contradiction = false,
\* for every cell c, every direction d whose neighbour n exists and every
\* pattern q allowed in n, some pattern p allowed in c has q in
\* propagator[p][d].
C30_ArcConsistent ==
    (pc = "host" /\ ~contradiction) =>
        \A c \in Cells : \A d \in 0..3 : \A n \in Neighbors(c, d) :
            \A q \in Allowed(n) :
                \E p \in Allowed(c) : q \in SeqRange(propagator[p][d])

\* C22: on the checkerboard, extraction yields exactly the two 2x2 checker
\* phases with equal weights, and when run() has returned done is true,
\* contradiction is false and any two horizontally or vertically adjacent
\* cells of render() differ, whatever was drawn.
C22_Checkerboard ==
    sample = Checkerboard =>
        /\ {patterns[i] : i \in PatternIds}
               = {Pattern(2, [i \in 0..3 |-> ((i % 2) + (i \div 2) + phase) % 2]) :
                      phase \in 0..1}
        /\ NumPatterns = 2
        /\ weights[0] = weights[1]
        /\ (op = "run" /\ pc = "host") =>
               /\ done /\ ~contradiction
               /\ \A c \in Cells : \A d \in 0..3 : \A n \in Neighbors(c, d) :
                      render[c] # render[n]

\* C22 witness: run() has returned on the checkerboard after collapsing a
\* cell of an output with more than one row and more than one column.
C22_Witness ==
    /\ sample = Checkerboard
    /\ op = "run" /\ pc = "host" /\ done /\ steps >= 1
    /\ config.output_width >= 2 /\ config.output_height >= 2

C24_Uniform ==
    sample = Uniform =>
        /\ NumPatterns = 1
        /\ patterns[0] = Pattern(2, [i \in 0..3 |-> 0])
        /\ weights[0] = 16
        /\ \A c \in Cells : sumsone[c] = 1
        /\ ~contradiction
        /\ (op = "run" /\ pc = "host") => done
        /\ \A c \in Cells : render[c] = <<0, 0, 0>>

\* C24 witness: run() has returned on the all-black sample with an output of
\* more than one cell.
C24_Witness ==
    /\ sample = Uniform
    /\ op = "run" /\ pc = "host" /\ done
    /\ config.output_width >= 2 /\ config.output_height >= 2

\* C21 as claimed: after each step() of the second solver, built from the
\* same sample and configuration and given the same draws, render() is the
\* image the first solver rendered after its step() of the same rank.
C21_SameRenders ==
    (twin /\ replayed >= 1) => render = renders[replayed]

\* C31: collapse of a cell with at least two allowed patterns, for a draw r
\* in [0, total allowed weight), leaves exactly one pattern allowed in the
\* cell; it was allowed before, it is the first allowed pattern in index
\* order at which r minus the weights so far is <= 0, and no other cell's
\* wave is changed.
C31_CollapseWalk ==
    \A cell \in Cells :
        Cardinality(Allowed(cell)) >= 2 =>
            \A r \in 0..(DrawUnits * SumOver(Allowed(cell), weights) - 1) :
                LET after == collapse(Mutable, cell, r)
                    left == {p \in PatternIds : after.wave[cell][p]}
                    upto(p) ==
                        SumOver({q \in Allowed(cell) : q <= p}, weights)
                IN /\ Cardinality(left) = 1
                   /\ left \subseteq Allowed(cell)
                   /\ \A p \in left :
                          /\ r <= DrawUnits * upto(p)
                          /\ \A q \in Allowed(cell) :
                                 q < p => r > DrawUnits * upto(q)
                   /\ \A other \in Cells \ {cell} :
                          after.wave[other] = wave[other]

\* C31 witness: after a step() that returned true, a cell allows at least
\* three patterns of unequal weights.
C31_Witness ==
    /\ op = "step" /\ ret
    /\ \E cell \in Cells :
           /\ Cardinality(Allowed(cell)) >= 3
           /\ \E p, q \in Allowed(cell) : weights[p] # weights[q]

\* C33: a step() that returns true sets last_collapsed to the (x, y) of a
\* cell observe could return, which had sumsone >= 2 before the call and
\* has sumsone = 1 after it unless contradiction became true; a step() that
\* returns false leaves last_collapsed as it was, and reset() sets it to
\* none.
C33_LastCollapsed ==
    [][/\ op' \in {"step", "run"} =>
              /\ ret' =>
                     /\ last_collapsed' # <<>>
                     /\ last_collapsed'[1] \in 0..(config.output_width - 1)
                     /\ last_collapsed'[2] \in 0..(config.output_height - 1)
                     /\ LET cell == cell_index(last_collapsed'[1],
                                               last_collapsed'[2])
                        IN /\ cell \in observe(Mutable)
                           /\ sumsone[cell] >= 2
                           /\ ~contradiction' => sumsone'[cell] = 1
              /\ ~ret' => UNCHANGED last_collapsed
       /\ op' = "reset" => last_collapsed' = <<>>]_vars

\* C33 witness: a step() returned true on an output that is wider than it is
\* high, for a cell that is not the first one.
C33_Witness ==
    /\ op = "step" /\ ret
    /\ config.output_width > config.output_height
    /\ last_collapsed # <<>> /\ last_collapsed # <<0, 0>>

\* The assignments of one pattern allowed by the wave w to each of the first
\* k cells, as sequences, that satisfy the propagator on every pair of
\* adjacent cells among them
RECURSIVE Supported(_, _)
Supported(w, k) ==
    IF k = 0 THEN {<<>>}
    ELSE {b \in {Append(a, p) : a \in Supported(w, k - 1),
                                p \in {q \in PatternIds : w[k - 1][q]}} :
              \A c \in 0..(k - 1) : \A d \in 0..3 : \A n \in Neighbors(c, d) :
                  (n < k /\ (c = k - 1 \/ n = k - 1)) =>
                      b[n + 1] \in SeqRange(propagator[b[c + 1]][d])}

\* C34: every assignment of one allowed pattern per cell that satisfies the
\* propagator on every adjacent pair before propagate() is contained in the
\* wave after it; propagate() is taken where step() calls it, after the
\* collapse of a cell to any of its allowed patterns.
C34_PropagateSound ==
    \A cell \in Cells :
        sumsone[cell] >= 2 =>
            \A chosen \in Allowed(cell) :
                LET before == BanOthers(Mutable, cell, chosen, 0)
                    after == propagate(before)
                IN \A a \in Supported(before.wave, WaveSize) :
                       \A c \in Cells : after.wave[c][a[c + 1]]

\* C34 witness: for some cell and some pattern allowed in it, the collapse
\* leaves an assignment that satisfies the propagator, and propagate()
\* bans patterns.
C34_Witness ==
    /\ WaveSize >= 2
    /\ \E cell \in Cells : \E chosen \in Allowed(cell) :
           LET before == BanOthers(Mutable, cell, chosen, 0)
           IN /\ sumsone[cell] >= 2
              /\ Supported(before.wave, WaveSize) # {}
              /\ propagate(before).wave # before.wave

\* C35: contradiction = true implies that some cell has sumsone = 0; a
\* step() after which some cell has sumsone = 0 returns with contradiction
\* = true; at most one cell is emptied by a step(), and with contradiction
\* true a step() bans nothing.
C35_ContradictionOnEmptyCell ==
    /\ contradiction => \E cell \in Cells : sumsone[cell] = 0
    /\ [][/\ contradiction' => \E cell \in Cells : sumsone'[cell] = 0
          /\ (op' \in {"step", "run"} /\ ~contradiction /\ ~done) =>
                 /\ (\E cell \in Cells : sumsone'[cell] = 0) => contradiction'
                 /\ Cardinality({cell \in Cells :
                                     sumsone[cell] > 0 /\ sumsone'[cell] = 0})
                        <= 1
          /\ (op' \in {"step", "run"} /\ contradiction) =>
                 UNCHANGED <<wave, sumsone, stack>>]_vars

\* C35 witness: a step() has emptied a cell by propagation and returned
\* with contradiction = true and entries left on the stack.
C35_Witness ==
    /\ op = "step" /\ contradiction /\ steps >= 1
    /\ Len(stack) >= 2
    /\ \E cell \in Cells : sumsone[cell] = 0

\* C36: done and contradiction are never both true.
C36_NotDoneAndContradiction == ~(done /\ contradiction)

\* C36 witness: run() has returned with contradiction = true after steps
\* that returned true, on an output of more than one cell.
C36_Witness ==
    /\ op = "run" /\ pc = "host" /\ contradiction /\ ~done
    /\ steps >= 1 /\ WaveSize >= 2

\* C37: a step() changes wave bits only from true to false, so no cell's
\* sumsone increases and a banned pattern stays banned until reset().
C37_WaveMonotone ==
    [][op' \in {"step", "run"} =>
           \A cell \in Cells :
               /\ sumsone'[cell] <= sumsone[cell]
               /\ \A p \in PatternIds : wave'[cell][p] => wave[cell][p]]_vars

\* C37 witness: after two step() calls that returned true, some cell has a
\* banned pattern and some cell still allows two.
C37_Witness ==
    /\ steps >= 2 /\ ret
    /\ \E cell \in Cells : sumsone[cell] < NumPatterns
    /\ \E cell \in Cells : sumsone[cell] >= 2

\* C38: every stack entry (cell, p) has wave[cell][p] = false; no entry is
\* on the stack twice and ban pushes (cell, p) exactly when it clears
\* wave[cell][p]; the stack is empty whenever a call has returned with
\* contradiction = false.
C38_StackDiscipline ==
    /\ \A k \in 1..Len(stack) : ~wave[stack[k][1]][stack[k][2]]
    /\ \A j, k \in 1..Len(stack) : j # k => stack[j] # stack[k]
    /\ \A cell \in Cells : \A p \in PatternIds :
           LET b == ban(Mutable, cell, p)
           IN IF wave[cell][p]
              THEN b.stack = Append(stack, <<cell, p>>) /\ ~b.wave[cell][p]
              ELSE b.stack = stack
    /\ ~contradiction => stack = <<>>

\* C38 witness: a step() has returned with contradiction = true and several
\* entries on the stack, in a cell that still allows a pattern.
C38_Witness ==
    /\ op \in {"step", "run"} /\ contradiction
    /\ Len(stack) >= 2
    /\ \E k \in 1..Len(stack) : sumsone[stack[k][1]] >= 1

\* C32 as claimed: with symmetry and ground or sides, the extracted patterns
\* are the windows and their reflections, no rotation among them, and the
\* weight of a pattern is the number of windows of which it is the identity
\* or the reflection, a window equal to its own reflection counting once.
C32_EdgeVariantsCoalesced ==
    (pc = "extracted" /\ config.symmetry /\ (config.ground \/ config.sides))
    => /\ {patterns[i] : i \in PatternIds}
              = UNION {{WindowAt(pos), reflect(WindowAt(pos))} :
                           pos \in AllowedWindows}
       /\ \A i \in PatternIds :
              weights[i] =
                  Cardinality({pos \in AllowedWindows :
                                   patterns[i] \in {WindowAt(pos),
                                                    reflect(WindowAt(pos))}})

C40_LibEquivalent ==
    (~config.ground /\ ~config.sides) =>
        /\ lib_new = new
        /\ lib_reset(Mutable) = reset(Mutable)
        /\ \A cell \in Cells :
               \A r \in IF Possible(Mutable, cell) = <<>> THEN {0}
                        ELSE Draws(Mutable, Possible(Mutable, cell)) :
                   lib_collapse(Mutable, cell, r) = collapse(Mutable, cell, r)
        /\ \A i \in PatternIds :
               SeqRange(lib_symmetries(patterns[i])) = symmetries(patterns[i])

\* C40 witness: without ground and sides, a step() has left contradiction =
\* true with entries on the stack, a cell that allows several patterns, and
\* a pattern with fewer than eight symmetries.
C40_Witness ==
    /\ ~config.ground /\ ~config.sides /\ config.symmetry
    /\ contradiction /\ stack # <<>> /\ steps >= 1
    /\ \E cell \in Cells : Cardinality(Allowed(cell)) >= 2
    /\ \E i \in PatternIds : Len(lib_symmetries(patterns[i])) < 8

====
